---- MODULE Spec2Model ----
(***************************************************************************)
(* A model of etl_pipeline.py: the column transformers, transform_data,    *)
(* and the SQLite loaders.                                                 *)
(*                                                                         *)
(* A text value is a sequence of one-character strings, so that title      *)
(* casing, trimming and parsing are computed character by character.       *)
(* A cell is a record [t, s, n]: t is its kind ("na" for a missing value,  *)
(* "str", "int", "bool", "date", "time"), s its text, n its number.        *)
(* A DataFrame is a record [cols, cat, rows]: the set of column names, the *)
(* columns held as category dtype, and the sequence of rows (functions     *)
(* from cols to cells).  DataFrames live in a heap and are referred to by  *)
(* their index, because the transformers assign columns in place.          *)
(***************************************************************************)
EXTENDS Integers, Sequences, FiniteSets, TLC

VARIABLES
  heap,      \* sequence of DataFrame objects; an object is named by its index
  df,        \* the caller's dataset (an index into heap)
  df_clean,  \* transform_data's local df_clean (an index into heap, 0 = unset)
  pc,        \* position of the caller / of transform_data
  err,       \* the exception that ended the call, "" if none
  raw,       \* the caller's dataset as it was before any call (never assigned)
  call,      \* what the caller does: "transform_data", "direct" or "load"
  applied,   \* column transformers the caller has applied directly to df
  table,     \* the SQLite table friskvard_data: [exists, cols, rows]
  conn,      \* number of open sqlite3 connections
  lpc,       \* position inside load_to_sqlite / run_pipeline's inspection
  larg,      \* arguments of the loader call in progress
  calls      \* completed loader calls, oldest first

vars == <<heap, df, df_clean, pc, err, raw, call, applied, table, conn, lpc, larg, calls>>

-----------------------------------------------------------------------------
(* Characters and strings *)

LowerChars ==
  <<"a","b","c","d","e","f","g","h","i","j","k","l","m","n","o","p","q","r",
    "s","t","u","v","w","x","y","z","å","ä","ö">>

UpperChars ==
  <<"A","B","C","D","E","F","G","H","I","J","K","L","M","N","O","P","Q","R",
    "S","T","U","V","W","X","Y","Z","Å","Ä","Ö">>

Digits == <<"0","1","2","3","4","5","6","7","8","9">>

Range(q) == {q[i] : i \in DOMAIN q}

IndexOf(c, q) == CHOOSE i \in DOMAIN q : q[i] = c

IsLower(c) == c \in Range(LowerChars)

IsUpper(c) == c \in Range(UpperChars)

\* Python's "cased" characters, over the alphabet of the model.
IsCased(c) == IsLower(c) \/ IsUpper(c)

IsDigit(c) == c \in Range(Digits)

DigitVal(c) == IndexOf(c, Digits) - 1

\* str.upper / str.lower on one character.
Upper(c) == IF IsLower(c) THEN UpperChars[IndexOf(c, LowerChars)] ELSE c

Lower(c) == IF IsUpper(c) THEN LowerChars[IndexOf(c, UpperChars)] ELSE c

\* str.lower
str_lower(s) == [i \in DOMAIN s |-> Lower(s[i])]

\* str.title: a cased character is upper-cased when the character before it is
\* not cased (or there is none), lower-cased otherwise.
str_title(s) ==
  [i \in DOMAIN s |->
     IF i > 1 /\ IsCased(s[i - 1]) THEN Lower(s[i]) ELSE Upper(s[i])]

-----------------------------------------------------------------------------
(* Vocabulary maps *)

\* medlemstyp_map (etl_pipeline.py 14-20): the dict in insertion order, <<key, value>>.
medlemstyp_map ==
  << << <<"G","r","u","n","d">>, <<"B","a","s">> >>,
     << <<"B","a","s","i","c">>, <<"B","a","s">> >>,
     << <<"S","t","u","d","e","r","a","n","d","e">>, <<"S","t","u","d","e","n","t">> >>,
     << <<"G","o","l","d">>, <<"P","r","e","m","i","u","m">> >>,
     << <<"P","l","u","s">>, <<"P","r","e","m","i","u","m">> >> >>

\* a faulty variant: a map with a chained alias ("City" maps to a key)
anlaggning_map_chained ==
  << << <<"C","i","t","y">>, <<"S","t","h","l","m"," ","C","i","t","y">> >>,
     << <<"S","t","h","l","m"," ","C","i","t","y">>,
        <<"S","t","o","c","k","h","o","l","m"," ","C","i","t","y">> >> >>

\* anlaggning_map (etl_pipeline.py 22-42): the dict in insertion order, <<key, value>>.
anlaggning_map ==
  << << <<"L","i","n","k","ö","p","i","n","g"," ","C">>, <<"L","i","n","k","ö","p","i","n","g">> >>,
     << <<"L","u","n","d"," ","C">>, <<"L","u","n","d">> >>,
     << <<"S","t","h","l","m"," ","C","i","t","y">>, <<"S","t","o","c","k","h","o","l","m"," ","C","i","t","y">> >>,
     << <<"C","i","t","y">>, <<"S","t","o","c","k","h","o","l","m"," ","C","i","t","y">> >>,
     << <<"S","t","h","l","m"," ","S","ö","d","e","r","m","a","l","m">>, <<"S","t","o","c","k","h","o","l","m"," ","S","ö","d","e","r","m","a","l","m">> >>,
     << <<"S","ö","d","e","r","m","a","l","m">>, <<"S","t","o","c","k","h","o","l","m"," ","S","ö","d","e","r","m","a","l","m">> >>,
     << <<"U","p","p","s","a","l","a"," ","C">>, <<"U","p","p","s","a","l","a">> >>,
     << <<"G","ö","t","e","b","o","r","g"," ","C">>, <<"G","ö","t","e","b","o","r","g"," ","C","e","n","t","r","u","m">> >>,
     << <<"G","b","g"," ","C","e","n","t","r","u","m">>, <<"G","ö","t","e","b","o","r","g"," ","C","e","n","t","r","u","m">> >>,
     << <<"G","b","g"," ","H","i","s","i","n","g","e","n">>, <<"G","ö","t","e","b","o","r","g"," ","H","i","s","i","n","g","e","n">> >>,
     << <<"H","i","s","i","n","g","e","n">>, <<"G","ö","t","e","b","o","r","g"," ","H","i","s","i","n","g","e","n">> >>,
     << <<"S","t","h","l","m"," ","K","u","n","g","s","h","o","l","m","e","n">>, <<"S","t","o","c","k","h","o","l","m"," ","K","u","n","g","s","h","o","l","m","e","n">> >>,
     << <<"Ö","r","e","b","r","o"," ","C">>, <<"Ö","r","e","b","r","o">> >>,
     << <<"M","a","l","m","ö"," ","V","h">>, <<"M","a","l","m","ö"," ","V","ä","s","t","r","a"," ","H","a","m","n","e","n">> >>,
     << <<"V","ä","s","t","r","a"," ","H","a","m","n","e","n">>, <<"M","a","l","m","ö"," ","V","ä","s","t","r","a"," ","H","a","m","n","e","n">> >>,
     << <<"M","a","l","m","ö"," ","C">>, <<"M","a","l","m","ö"," ","C","e","n","t","r","u","m">> >>,
     << <<"M","a","l","m","ö"," ","C","i","t","y">>, <<"M","a","l","m","ö"," ","C","e","n","t","r","u","m">> >>,
     << <<"V","ä","s","t","e","r","å","s"," ","C">>, <<"V","ä","s","t","e","r","å","s">> >>,
     << <<"K","u","n","g","s","h","o","l","m","e","n">>, <<"S","t","o","c","k","h","o","l","m"," ","K","u","n","g","s","h","o","l","m","e","n">> >> >>

\* status_map (etl_pipeline.py 44-52): the dict in insertion order, <<key, value>>.
status_map ==
  << << <<"D","e","l","t","o","g">>, <<"G","e","n","o","m","f","ö","r","d">> >>,
     << <<"K","l","a","r">>, <<"G","e","n","o","m","f","ö","r","d">> >>,
     << <<"S","t","r","u","k","e","n">>, <<"A","v","b","o","k","a","d">> >>,
     << <<"C","a","n","c","e","l","l","e","d">>, <<"A","v","b","o","k","a","d">> >>,
     << <<"E","j"," ","N","ä","r","v","a","r","a","n","d","e">>, <<"N","o","-","S","h","o","w">> >>,
     << <<"M","i","s","s","a","d">>, <<"N","o","-","S","h","o","w">> >>,
     << <<"N","o"," ","S","h","o","w">>, <<"N","o","-","S","h","o","w">> >> >>

\* passnamn_map (etl_pipeline.py 54-72): the dict in insertion order, <<key, value>>.
passnamn_map ==
  << << <<"H",".","I",".","I",".","T">>, <<"H","i","i","t">> >>,
     << <<"H","ö","g","i","n","t","e","n","s","i","v">>, <<"H","i","i","t">> >>,
     << <<"I","n","t","e","r","v","a","l","l">>, <<"H","i","i","t">> >>,
     << <<"C","o","r","e">>, <<"S","t","y","r","k","e","t","r","ä","n","i","n","g">> >>,
     << <<"S","t","y","r","k","a">>, <<"S","t","y","r","k","e","t","r","ä","n","i","n","g">> >>,
     << <<"S","t","y","r","k","e","p","a","s","s">>, <<"S","t","y","r","k","e","t","r","ä","n","i","n","g">> >>,
     << <<"G","y","m","p","a","s","s">>, <<"S","t","y","r","k","e","t","r","ä","n","i","n","g">> >>,
     << <<"S","t","r","e","n","g","t","h">>, <<"S","t","y","r","k","e","t","r","ä","n","i","n","g">> >>,
     << <<"C","y","k","e","l">>, <<"S","p","i","n","n","i","n","g">> >>,
     << <<"S","p","i","n">>, <<"S","p","i","n","n","i","n","g">> >>,
     << <<"I","n","d","o","o","r"," ","C","y","c","l","i","n","g">>, <<"S","p","i","n","n","i","n","g">> >>,
     << <<"Z","u","m","b","a">>, <<"D","a","n","s">> >>,
     << <<"D","a","n","c","e">>, <<"D","a","n","s">> >>,
     << <<"V","i","n","y","a","s","a">>, <<"Y","o","g","a">> >>,
     << <<"H","a","t","h","a"," ","Y","o","g","a">>, <<"Y","o","g","a">> >>,
     << <<"B","o","x","i","n","g">>, <<"B","o","x","n","i","n","g">> >>,
     << <<"F","i","g","h","t","p","a","s","s">>, <<"B","o","x","n","i","n","g">> >> >>

\* sv_months (etl_pipeline.py 75-88): the dict in insertion order, <<key, value>>.
sv_months ==
  << << <<"j","a","n","u","a","r","i">>, <<"j","a","n","u","a","r","y">> >>,
     << <<"f","e","b","r","u","a","r","i">>, <<"f","e","b","r","u","a","r","y">> >>,
     << <<"m","a","r","s">>, <<"m","a","r","c","h">> >>,
     << <<"a","p","r","i","l">>, <<"a","p","r","i","l">> >>,
     << <<"m","a","j">>, <<"m","a","y">> >>,
     << <<"j","u","n","i">>, <<"j","u","n","e">> >>,
     << <<"j","u","l","i">>, <<"j","u","l","y">> >>,
     << <<"a","u","g","u","s","t","i">>, <<"a","u","g","u","s","t">> >>,
     << <<"s","e","p","t","e","m","b","e","r">>, <<"s","e","p","t","e","m","b","e","r">> >>,
     << <<"o","k","t","o","b","e","r">>, <<"o","c","t","o","b","e","r">> >>,
     << <<"n","o","v","e","m","b","e","r">>, <<"n","o","v","e","m","b","e","r">> >>,
     << <<"d","e","c","e","m","b","e","r">>, <<"d","e","c","e","m","b","e","r">> >> >>

Keys(m) == {m[i][1] : i \in DOMAIN m}

\* Series.replace(m) on one string: a value equal to a key becomes that key's
\* value, any other value is kept (whole-value match, no regex).
replace(m, s) ==
  IF s \in Keys(m) THEN m[CHOOSE i \in DOMAIN m : m[i][1] = s][2] ELSE s

-----------------------------------------------------------------------------
(* Cells *)

NA == [t |-> "na", s |-> <<>>, n |-> 0]

Str(s) == [t |-> "str", s |-> s, n |-> 0]

Num(n) == [t |-> "int", s |-> <<>>, n |-> n]

\* a float that is not integer-valued: n its integer part, s its fraction digits
Float(n, frac) == [t |-> "float", s |-> frac, n |-> n]

Bool(b) == [t |-> "bool", s |-> <<>>, n |-> IF b THEN 1 ELSE 0]

Date(y, m, d) == [t |-> "date", s |-> <<>>, n |-> (y * 10000) + (m * 100) + d]

Time(h, m) == [t |-> "time", s |-> <<>>, n |-> (h * 60) + m]

isna(v) == v.t = "na"

-----------------------------------------------------------------------------
(* String helpers used by the parsers *)

IsSpace(c) == c = " "

\* str.strip
str_strip(s) ==
  LET idx == {i \in DOMAIN s : ~IsSpace(s[i])}
  IN  IF idx = {} THEN <<>>
      ELSE SubSeq(s, CHOOSE i \in idx : \A j \in idx : i <= j,
                     CHOOSE i \in idx : \A j \in idx : i >= j)

\* str.replace(old, new): occurrences left to right, not overlapping
RECURSIVE str_replace(_, _, _)
str_replace(s, old, new) ==
  IF Len(s) < Len(old) \/ old = <<>> THEN s
  ELSE IF SubSeq(s, 1, Len(old)) = old
       THEN new \o str_replace(SubSeq(s, Len(old) + 1, Len(s)), old, new)
       ELSE <<s[1]>> \o str_replace(Tail(s), old, new)

\* str.split(sep) for a one-character separator
RECURSIVE str_split(_, _)
str_split(s, sep) ==
  IF \A i \in DOMAIN s : s[i] # sep THEN <<s>>
  ELSE LET p == CHOOSE i \in DOMAIN s :
                  s[i] = sep /\ \A j \in 1..(i - 1) : s[j] # sep
       IN  <<SubSeq(s, 1, p - 1)>> \o str_split(SubSeq(s, p + 1, Len(s)), sep)

AllDigits(s) == s # <<>> /\ \A i \in DOMAIN s : IsDigit(s[i])

RECURSIVE DigitsVal(_)
DigitsVal(s) ==
  IF s = <<>> THEN 0
  ELSE (DigitsVal(SubSeq(s, 1, Len(s) - 1)) * 10) + DigitVal(s[Len(s)])

\* the decimal text of a natural number
RECURSIVE NatToStr(_)
NatToStr(n) ==
  IF n < 10 THEN <<Digits[n + 1]>>
  ELSE NatToStr(n \div 10) \o <<Digits[(n % 10) + 1]>>

\* astype("string") on one cell: a missing value stays missing, text is kept,
\* a number becomes its decimal text, a date its ISO text.
astype_string(v) ==
  CASE v.t = "na"   -> NA
    [] v.t = "str"  -> v
    [] v.t = "int"  -> Str(IF v.n < 0 THEN <<"-">> \o NatToStr(0 - v.n)
                           ELSE NatToStr(v.n))
    [] v.t = "date" -> LET y == v.n \div 10000
                           m == (v.n \div 100) % 100
                           d == v.n % 100
                           two(k) == IF k < 10 THEN <<"0">> \o NatToStr(k)
                                     ELSE NatToStr(k)
                       IN  Str(NatToStr(y) \o <<"-">> \o two(m) \o <<"-">> \o two(d))
    [] OTHER        -> Str(v.s)

-----------------------------------------------------------------------------
(* DataFrames *)

\* df[c] = series, a value for every row: the column is added if absent,
\* replaced if present; the new column is not of category dtype.
Assign(d, c, series) ==
  [cols |-> d.cols \cup {c},
   cat  |-> d.cat \ {c},
   rows |-> [i \in DOMAIN d.rows |->
               [k \in d.cols \cup {c} |->
                  IF k = c THEN series[i] ELSE d.rows[i][k]]]]

\* what a transformer hands back: the dataset as it left it, and how it ended
Ok(d) == [ok |-> TRUE, df |-> d, exc |-> ""]

Raise(d, e) == [ok |-> FALSE, df |-> d, exc |-> e]

Column(d, c) == [i \in DOMAIN d.rows |-> d.rows[i][c]]

\* DataFrame.drop_duplicates(): of the rows equal in every column, the first
\* is kept; the order of the kept rows is unchanged.
RECURSIVE KeepFirst(_, _)
KeepFirst(rows, acc) ==
  IF rows = <<>> THEN acc
  ELSE KeepFirst(Tail(rows),
                 IF \E i \in DOMAIN acc : acc[i] = Head(rows) THEN acc
                 ELSE Append(acc, Head(rows)))

IdentityDedup(d) == d

drop_duplicates(d) == [d EXCEPT !.rows = KeepFirst(d.rows, <<>>)]

-----------------------------------------------------------------------------
(* Column transformers.  Each takes the dataset it is given and hands back  *)
(* the dataset as it left it (columns are assigned in place) and whether it *)
(* returned or raised.                                                      *)

\* clean_månadskostnad: df["månadskostnad"] raises KeyError when the column is
\* absent; "< 0" raises TypeError on a column that holds text; NaN < 0 is
\* False and abs(NaN) is NaN.
clean_manadskostnad(d) ==
  IF "månadskostnad" \notin d.cols THEN Raise(d, "KeyError")
  ELSE IF \E i \in DOMAIN d.rows : d.rows[i]["månadskostnad"].t = "str"
       THEN Raise(d, "TypeError")
  ELSE LET cost == Column(d, "månadskostnad")
       IN  Ok(Assign(Assign(d, "är_negativt_belopp",
                            [i \in DOMAIN cost |->
                               Bool(cost[i].t = "int" /\ cost[i].n < 0)]),
                     "månadskostnad_abs",
                     [i \in DOMAIN cost |->
                        IF cost[i].t = "int"
                        THEN Num(IF cost[i].n < 0 THEN 0 - cost[i].n ELSE cost[i].n)
                        ELSE NA]))

RECURSIVE TrimZeros(_)
TrimZeros(s) ==
  IF s # <<>> /\ s[Len(s)] = "0" THEN TrimZeros(SubSeq(s, 1, Len(s) - 1)) ELSE s

DigitsOrEmpty(s) == \A i \in DOMAIN s : IsDigit(s[i])

\* pd.to_numeric(errors="coerce") on one cell: decimal text with an optional
\* sign and an optional fraction parses (to an int when it has no ".", to a
\* float otherwise); any other text, and a missing value, is NaN.
to_numeric(v) ==
  IF v.t \in {"int", "float"} THEN v
  ELSE IF v.t # "str" THEN NA
  ELSE LET s      == str_strip(v.s)
           signed == s # <<>> /\ s[1] \in {"-", "+"}
           sign   == IF s # <<>> /\ s[1] = "-" THEN 0 - 1 ELSE 1
           body   == IF signed THEN Tail(s) ELSE s
           parts  == str_split(body, ".")
       IN  IF AllDigits(body) THEN Num(sign * DigitsVal(body))
           ELSE IF Len(parts) = 2
                   /\ DigitsOrEmpty(parts[1]) /\ DigitsOrEmpty(parts[2])
                   /\ (parts[1] # <<>> \/ parts[2] # <<>>)
                THEN Float(sign * DigitsVal(parts[1]), TrimZeros(parts[2]))
                ELSE NA

\* whether astype("Int64") can cast the cell: a float must be integer-valued
SafeInt64(v) == v.t = "float" => v.s = <<>>

\* clean_födelseår: to_numeric(errors="coerce"), then astype("Int64"), which
\* raises TypeError ("cannot safely cast non-equivalent float64 to int64")
\* when some value of the column is a float with a fraction.
clean_fodelsear(d) ==
  IF "födelseår" \notin d.cols THEN Raise(d, "KeyError")
  ELSE IF \E i \in DOMAIN d.rows : ~SafeInt64(to_numeric(d.rows[i]["födelseår"]))
       THEN Raise(d, "TypeError")
  ELSE Ok(Assign(d, "födelseår",
                 [i \in DOMAIN d.rows |->
                    IF isna(to_numeric(d.rows[i]["födelseår"])) THEN NA
                    ELSE Num(to_numeric(d.rows[i]["födelseår"]).n)]))

\* a faulty variant: the lookup runs on the value as given, title casing after it
ReplaceThenTitle(m, v) ==
  IF isna(astype_string(v)) THEN NA
  ELSE Str(str_title(replace(m, astype_string(v).s)))

\* .astype("string").str.title().replace(m) on one cell
Canonicalize(m, v) ==
  IF isna(astype_string(v)) THEN NA
  ELSE Str(replace(m, str_title(astype_string(v).s)))

clean_text(d, c, m) ==
  IF c \notin d.cols THEN Raise(d, "KeyError")
  ELSE Ok(Assign(d, c, [i \in DOMAIN d.rows |-> Canonicalize(m, d.rows[i][c])]))

clean_medlemstyp(d) == clean_text(d, "medlemstyp", medlemstyp_map)

clean_anlaggning(d) == clean_text(d, "anläggning", anlaggning_map)

clean_status(d) == clean_text(d, "status", status_map)

clean_passnamn(d) == clean_text(d, "passnamn", passnamn_map)

Okand == <<"O","k","ä","n","d">>

\* Series.fillna(x) on one cell
fillna(v, x) == IF isna(v) THEN x ELSE v

\* the loop over text_columns, then feedback_text; a column is assigned before
\* the next one is read
fill_text_columns(d, default) ==
  IF "anläggning" \notin d.cols THEN Raise(d, "KeyError")
  ELSE LET d1 == Assign(d, "anläggning",
                        [i \in DOMAIN d.rows |->
                           fillna(d.rows[i]["anläggning"], Str(default))])
       IN  IF "instruktör" \notin d1.cols THEN Raise(d1, "KeyError")
           ELSE LET d2 == Assign(d1, "instruktör",
                                 [i \in DOMAIN d1.rows |->
                                    fillna(d1.rows[i]["instruktör"], Str(default))])
                IN  IF "feedback_text" \notin d2.cols THEN Raise(d2, "KeyError")
                    ELSE Ok(Assign(d2, "feedback_text",
                                   [i \in DOMAIN d2.rows |->
                                      fillna(d2.rows[i]["feedback_text"], Str(<<>>))]))

\* a faulty variant: a default that is not in title case
clean_null_values_lowercase(d) == fill_text_columns(d, <<"o","k","ä","n","d">>)

clean_null_values(d) == fill_text_columns(d, Okand)

date_columns ==
  <<"medlem_startdatum", "medlem_slutdatum", "bokningsdatum", "passdatum",
    "feedbackdatum">>

\* the loop "for sv, en in sv_months.items(): series.str.replace(sv, en)"
RECURSIVE replace_months(_, _)
replace_months(s, i) ==
  IF i > Len(sv_months) THEN s
  ELSE replace_months(str_replace(s, sv_months[i][1], sv_months[i][2]), i + 1)

IsLeap(y) == (y % 4 = 0 /\ y % 100 # 0) \/ y % 400 = 0

DaysIn(y, m) ==
  CASE m \in {4, 6, 9, 11} -> 30
    [] m = 2                -> IF IsLeap(y) THEN 29 ELSE 28
    [] OTHER                -> 31

\* a calendar date inside the range of a nanosecond Timestamp, else NaT
MakeDate(y, m, d) ==
  IF y \in 1678..2261 /\ m \in 1..12 /\ d \in 1..DaysIn(y, m)
  THEN Date(y, m, d) ELSE NA

\* the month number of an English month name (sv_months is in calendar
\* order), 0 for any other word
MonthNumber(w) ==
  IF \E i \in DOMAIN sv_months : sv_months[i][2] = w
  THEN CHOOSE i \in DOMAIN sv_months : sv_months[i][2] = w
  ELSE 0

ShortNumber(s) == AllDigits(s) /\ Len(s) <= 2

Year(s) == AllDigits(s) /\ Len(s) = 4

\* pd.to_datetime(errors="coerce", format="mixed", dayfirst=True) on one
\* string, for the formats the pipeline is fed: ISO "YYYY-MM-DD", day-first
\* "DD/MM/YYYY" (a second number above 12 is taken as the day), and
\* "DD month YYYY" with an English month name; anything else here is NaT.
to_datetime_mixed(s) ==
  LET iso   == str_split(s, "-")
      slash == str_split(s, "/")
      words == str_split(s, " ")
  IN  IF Len(iso) = 3 /\ Year(iso[1]) /\ ShortNumber(iso[2]) /\ ShortNumber(iso[3])
      THEN MakeDate(DigitsVal(iso[1]), DigitsVal(iso[2]), DigitsVal(iso[3]))
      ELSE IF Len(slash) = 3 /\ ShortNumber(slash[1]) /\ ShortNumber(slash[2])
              /\ Year(slash[3])
      THEN IF DigitsVal(slash[2]) > 12
           THEN MakeDate(DigitsVal(slash[3]), DigitsVal(slash[1]), DigitsVal(slash[2]))
           ELSE MakeDate(DigitsVal(slash[3]), DigitsVal(slash[2]), DigitsVal(slash[1]))
      ELSE IF Len(words) = 3 /\ ShortNumber(words[1]) /\ MonthNumber(words[2]) > 0
              /\ Year(words[3])
      THEN MakeDate(DigitsVal(words[3]), MonthNumber(words[2]), DigitsVal(words[1]))
      ELSE NA

\* the body of clean_date's loop on one cell: astype("string"), strip, the
\* empty string and "nan"/"NaN" to <NA>, commas removed, lower case, Swedish
\* month names replaced, then to_datetime
parse_date_cell(v) ==
  IF isna(astype_string(v)) THEN NA
  ELSE LET stripped == str_strip(astype_string(v).s)
       IN  IF stripped \in {<<>>, <<"n","a","n">>, <<"N","a","N">>} THEN NA
           ELSE to_datetime_mixed(
                  replace_months(str_lower(str_replace(stripped, <<",">>, <<>>)), 1))

\* clean_date: the date columns in order; a column is assigned before the
\* next one is read, so a KeyError leaves the earlier ones converted
RECURSIVE clean_date_from(_, _)
clean_date_from(d, i) ==
  IF i > Len(date_columns) THEN Ok(d)
  ELSE IF date_columns[i] \notin d.cols THEN Raise(d, "KeyError")
  ELSE clean_date_from(
         Assign(d, date_columns[i],
                [k \in DOMAIN d.rows |-> parse_date_cell(d.rows[k][date_columns[i]])]),
         i + 1)

clean_date(d) == clean_date_from(d, 1)

\* pd.to_datetime(format="%H:%M", errors="coerce").dt.time on one cell
parse_time_cell(v) ==
  IF v.t # "str" THEN NA
  ELSE LET p == str_split(v.s, ":")
       IN  IF Len(p) = 2 /\ ShortNumber(p[1]) /\ ShortNumber(p[2])
              /\ DigitsVal(p[1]) <= 23 /\ DigitsVal(p[2]) <= 59
           THEN Time(DigitsVal(p[1]), DigitsVal(p[2]))
           ELSE NA

\* a faulty variant: the step is skipped when its column is absent
clean_passtid_if_present(d) ==
  IF "passtid" \notin d.cols THEN Ok(d)
  ELSE Ok(Assign(d, "passtid",
                 [i \in DOMAIN d.rows |-> parse_time_cell(d.rows[i]["passtid"])]))

clean_passtid(d) ==
  IF "passtid" \notin d.cols THEN Raise(d, "KeyError")
  ELSE Ok(Assign(d, "passtid",
                 [i \in DOMAIN d.rows |-> parse_time_cell(d.rows[i]["passtid"])]))

categorical_columns == {"medlemstyp", "anläggning", "status", "passnamn", "instruktör"}

\* convert_to_category: each listed column that is present becomes category
\* dtype; an absent one is skipped
convert_to_category(d) ==
  Ok([d EXCEPT !.cat = @ \cup (categorical_columns \cap d.cols)])

-----------------------------------------------------------------------------
(* transform_data as a function of the dataset *)

\* a column transformer by name
Apply(f, d) ==
  CASE f = "clean_manadskostnad" -> clean_manadskostnad(d)
    [] f = "clean_fodelsear"     -> clean_fodelsear(d)
    [] f = "clean_medlemstyp"    -> clean_medlemstyp(d)
    [] f = "clean_anlaggning"    -> clean_anlaggning(d)
    [] f = "clean_status"        -> clean_status(d)
    [] f = "clean_passnamn"      -> clean_passnamn(d)
    [] f = "clean_null_values"   -> clean_null_values(d)
    [] f = "clean_date"          -> clean_date(d)
    [] f = "clean_passtid"       -> clean_passtid(d)
    [] f = "convert_to_category" -> convert_to_category(d)

\* the calls of transform_data after drop_duplicates, in order
StepOrder ==
  <<"clean_manadskostnad", "clean_fodelsear", "clean_medlemstyp",
    "clean_anlaggning", "clean_status", "clean_passnamn", "clean_null_values",
    "clean_date", "clean_passtid", "convert_to_category">>

\* the same calls with clean_null_values moved before the canonicalizations
NullFirstOrder ==
  <<"clean_manadskostnad", "clean_fodelsear", "clean_null_values",
    "clean_medlemstyp", "clean_anlaggning", "clean_status", "clean_passnamn",
    "clean_date", "clean_passtid", "convert_to_category">>

\* the calls of `order` from the i-th on; the first that raises ends the run
RECURSIVE RunFrom(_, _, _)
RunFrom(order, i, d) ==
  IF i > Len(order) THEN Ok(d)
  ELSE IF Apply(order[i], d).ok THEN RunFrom(order, i + 1, Apply(order[i], d).df)
  ELSE Apply(order[i], d)

\* transform_data with its calls in the given order
transform_in_order(order, d) == RunFrom(order, 1, drop_duplicates(d))

-----------------------------------------------------------------------------
(* The datasets the model is run on *)

\* the columns the transformers read
AllCols ==
  {"månadskostnad", "födelseår", "medlemstyp", "anläggning", "status",
   "passnamn", "instruktör", "feedback_text", "medlem_startdatum",
   "medlem_slutdatum", "bokningsdatum", "passdatum", "feedbackdatum", "passtid"}

\* a well-formed raw row
BaseRow ==
  [c \in AllCols |->
     CASE c = "månadskostnad" -> Num(399)
       [] c = "födelseår" -> Str(<<"1","9","9","0">>)
       [] c = "medlemstyp" -> Str(<<"G","o","l","d">>)
       [] c = "anläggning" -> Str(<<"S","t","h","l","m"," ","C","i","t","y">>)
       [] c = "status" -> Str(<<"D","e","l","t","o","g">>)
       [] c = "passnamn" -> Str(<<"Y","o","g","a">>)
       [] c = "instruktör" -> Str(<<"A","n","n","a">>)
       [] c = "feedback_text" -> Str(<<"B","r","a">>)
       [] c = "medlem_startdatum" -> Str(<<"2","0","2","3","-","0","6","-","0","1">>)
       [] c = "medlem_slutdatum" -> Str(<<"2","0","2","4","-","0","6","-","0","1">>)
       [] c = "bokningsdatum" -> Str(<<"2","0","2","4","-","0","1","-","1","0">>)
       [] c = "passdatum" -> Str(<<"2","0","2","4","-","0","1","-","1","5">>)
       [] c = "feedbackdatum" -> Str(<<"2","0","2","4","-","0","1","-","1","6">>)
       [] c = "passtid" -> Str(<<"0","9",":","3","0">>)]

\* sample values: monthly cost as read_csv types it: a number, NaN, or text when the file holds text
manadskostnad_samples ==
  { Num(399), Num(0), Num(0 - 50), NA, Str(<<"a","b","c">>)}

\* sample values: birth year
fodelsear_samples ==
  { Str(<<"1","9","9","0">>), Str(<<"1","9","9","0",".","0">>), Str(<<"1","9","9","0",".","5">>),
   Str(<<"a","b","c">>), Str(<<>>), NA, Num(1985)}

\* sample values: membership tier
medlemstyp_samples ==
  { Str(<<"G","o","l","d">>), Str(<<"g","o","l","d">>), Str(<<"G","O","L","D">>),
   Str(<<"B","a","s">>), Str(<<"s","t","u","d","e","n","t">>), Str(<<"o","k","ä","n","d">>), NA}

\* sample values: facility
anlaggning_samples ==
  { Str(<<"S","t","h","l","m"," ","C","i","t","y">>), Str(<<"C","i","t","y">>),
   Str(<<"s","t","h","l","m"," ","c","i","t","y">>),
   Str(<<"S","t","o","c","k","h","o","l","m"," ","C","i","t","y">>), Str(<<"L","u","n","d">>),
   Str(<<"o","k","ä","n","d">>), Str(<<"O","K","Ä","N","D">>), NA}

\* sample values: session status
status_samples ==
  { Str(<<"D","e","l","t","o","g">>), Str(<<"n","o"," ","s","h","o","w">>),
   Str(<<"n","o","-","s","h","o","w">>), Str(<<"N","O","-","S","H","O","W">>),
   Str(<<"a","v","b","o","k","a","d">>), NA}

\* sample values: session name
passnamn_samples ==
  { Str(<<"Y","o","g","a">>), Str(<<"h",".","i",".","i",".","t">>),
   Str(<<"h","a","t","h","a"," ","y","o","g","a">>), Str(<<"p","i","l","a","t","e","s">>), NA}

\* sample values: instructor
instruktor_samples ==
  { Str(<<"A","n","n","a">>), Str(<<"o","k","ä","n","d">>), Str(<<>>), NA}

\* sample values: feedback text
feedback_text_samples ==
  { Str(<<"B","r","a">>), Str(<<>>), NA}

\* sample values: time of day
passtid_samples ==
  { Str(<<"0","9",":","3","0">>), Str(<<"9",":","0","5">>), Str(<<"2","5",":","0","0">>),
   Str(<<"0","9",".","3","0">>), Str(<<"a","b","c">>), Str(<<>>), NA}

\* sample values: a date column
date_samples ==
  { Str(<<"2","0","2","4","-","0","1","-","1","5">>),
   Str(<<"1","5"," ","J","a","n","u","a","r","i"," ","2","0","2","4">>),
   Str(<<"1","5"," ","j","a","n","u","a","r","i",","," ","2","0","2","4">>),
   Str(<<"1","5","/","0","1","/","2","0","2","4">>),
   Str(<<" ","2","0","2","4","-","0","1","-","1","5"," ">>), Str(<<>>), Str(<<"n","a","n">>),
   Str(<<"N","a","N">>), Str(<<"a","b","c">>), Str(<<"3","1","/","0","2","/","2","0","2","4">>),
   Str(<<"1","5"," ","m","a","j"," ","2","0","2","4">>), NA}

Samples(c) ==
  CASE c = "månadskostnad" -> manadskostnad_samples
    [] c = "födelseår" -> fodelsear_samples
    [] c = "medlemstyp" -> medlemstyp_samples
    [] c = "anläggning" -> anlaggning_samples
    [] c = "status" -> status_samples
    [] c = "passnamn" -> passnamn_samples
    [] c = "instruktör" -> instruktor_samples
    [] c = "feedback_text" -> feedback_text_samples
    [] c = "passtid" -> passtid_samples
    [] OTHER -> date_samples

\* the rows that multi-row datasets are built from: the well-formed row and
\* rows that differ from it in one column
CoreRows ==
  {BaseRow,
   [BaseRow EXCEPT !["anläggning"] = Str(<<"C","i","t","y">>)],
   [BaseRow EXCEPT !["anläggning"] = Str(<<"o","k","ä","n","d">>)],
   [BaseRow EXCEPT !["anläggning"] = NA],
   [BaseRow EXCEPT !["instruktör"] = NA],
   [BaseRow EXCEPT !["födelseår"] = Str(<<"1","9","9","0",".","5">>)],
   [BaseRow EXCEPT !["födelseår"] = Str(<<"a","b","c">>)],
   [BaseRow EXCEPT !["månadskostnad"] = Num(0 - 50)],
   [BaseRow EXCEPT !["passdatum"] =
      Str(<<"1","5"," ","J","a","n","u","a","r","i"," ","2","0","2","4">>)],
   [BaseRow EXCEPT !["passtid"] = Str(<<"2","5",":","0","0">>)]}

\* every row that differs from the well-formed row in one sampled value
RawRows == UNION {{[BaseRow EXCEPT ![c] = v] : v \in Samples(c)} : c \in AllCols}

Values(m) == {m[i][2] : i \in DOMAIN m}

str_upper(s) == [i \in DOMAIN s |-> Upper(s[i])]

\* every key of a map as written, in lower case and in upper case, and every
\* canonical value
Spellings(m) ==
  Keys(m) \cup {str_lower(k) : k \in Keys(m)} \cup {str_upper(k) : k \in Keys(m)}
    \cup Values(m)

VocabularyRows ==
  {[BaseRow EXCEPT !["medlemstyp"] = Str(s)] : s \in Spellings(medlemstyp_map)}
    \cup {[BaseRow EXCEPT !["anläggning"] = Str(s)] : s \in Spellings(anlaggning_map)}
    \cup {[BaseRow EXCEPT !["status"] = Str(s)] : s \in Spellings(status_map)}
    \cup {[BaseRow EXCEPT !["passnamn"] = Str(s)] : s \in Spellings(passnamn_map)}

\* the number of rows of the largest dataset built from CoreRows
MaxRows == 2

SeqsUpTo(S, n) == UNION {[1..k -> S] : k \in 0..n}

\* a DataFrame of the given rows, restricted to the given columns
Frame(rows, cols) ==
  [cols |-> cols, cat |-> {},
   rows |-> [i \in DOMAIN rows |-> [c \in cols |-> rows[i][c]]]]

\* datasets with one column missing
Incomplete == {Frame(<<BaseRow>>, AllCols \ {c}) : c \in AllCols}

\* the datasets transform_data is called on
TransformInputs ==
  {Frame(r, AllCols) : r \in SeqsUpTo(CoreRows, MaxRows)}
    \cup {Frame(<<r>>, AllCols) : r \in RawRows}
    \cup Incomplete

\* the datasets the column transformers are called on directly
DirectInputs ==
  {Frame(<<r>>, AllCols) : r \in VocabularyRows \cup RawRows} \cup Incomplete

-----------------------------------------------------------------------------
(* The SQLite table and the loader's locals *)

NoTable == [exists |-> FALSE, cols |-> {}, rows |-> <<>>]

NoArgs ==
  [df |-> Frame(<<>>, {}), if_exists |-> "", dataset_label |-> "",
   via |-> "", exc |-> ""]

-----------------------------------------------------------------------------
(* transform_data, step by step *)

\* a faulty variant: df_clean = df, then drop_duplicates(inplace=True)
DedupInPlace(h, r) == [heap |-> [h EXCEPT ![r] = drop_duplicates(h[r])], ref |-> r]

\* "df_clean = df.copy()" then "df_clean = df_clean.drop_duplicates()": both
\* make a new object; df_clean ends bound to the second
CopyThenDedup(h, r) ==
  [heap |-> h \o <<h[r], drop_duplicates(h[r])>>, ref |-> Len(h) + 2]

PcAfter(f) ==
  IF f = StepOrder[Len(StepOrder)] THEN "done"
  ELSE StepOrder[(CHOOSE i \in DOMAIN StepOrder : StepOrder[i] = f) + 1]

InitTransform ==
  /\ \E d \in TransformInputs : heap = <<d>> /\ raw = d
  /\ df = 1
  /\ df_clean = 0
  /\ call = "transform_data"
  /\ pc = "start"
  /\ err = ""
  /\ applied = {}
  /\ table = NoTable
  /\ conn = 0
  /\ lpc = "off"
  /\ larg = NoArgs
  /\ calls = <<>>

InitDirect ==
  /\ \E d \in DirectInputs : heap = <<d>> /\ raw = d
  /\ df = 1
  /\ df_clean = 0
  /\ call = "direct"
  /\ pc = "lib"
  /\ err = ""
  /\ applied = {}
  /\ table = NoTable
  /\ conn = 0
  /\ lpc = "off"
  /\ larg = NoArgs
  /\ calls = <<>>

Init == InitTransform \/ InitDirect

LoaderUnchanged == UNCHANGED <<table, conn, lpc, larg, calls>>

\* lines 192-194
TransformStart ==
  /\ call = "transform_data" /\ pc = "start"
  /\ heap' = CopyThenDedup(heap, df).heap
  /\ df_clean' = CopyThenDedup(heap, df).ref
  /\ pc' = StepOrder[1]
  /\ UNCHANGED <<df, raw, call, err, applied>>
  /\ LoaderUnchanged

\* one call "df_clean = f(df_clean)" of transform_data: f assigns into the
\* object df_clean names and hands the same object back, or raises
Step(f) ==
  /\ pc = f
  /\ heap' = [heap EXCEPT ![df_clean] = Apply(f, heap[df_clean]).df]
  /\ pc' = IF Apply(f, heap[df_clean]).ok THEN PcAfter(f) ELSE "raised"
  /\ err' = Apply(f, heap[df_clean]).exc
  /\ UNCHANGED <<df, df_clean, raw, call, applied>>
  /\ LoaderUnchanged

T_clean_manadskostnad == call = "transform_data" /\ Step("clean_manadskostnad")

T_clean_fodelsear == call = "transform_data" /\ Step("clean_fodelsear")

T_clean_medlemstyp == call = "transform_data" /\ Step("clean_medlemstyp")

T_clean_anlaggning == call = "transform_data" /\ Step("clean_anlaggning")

T_clean_status == call = "transform_data" /\ Step("clean_status")

T_clean_passnamn == call = "transform_data" /\ Step("clean_passnamn")

T_clean_null_values == call = "transform_data" /\ Step("clean_null_values")

T_clean_date == call = "transform_data" /\ Step("clean_date")

T_clean_passtid == call = "transform_data" /\ Step("clean_passtid")

T_convert_to_category == call = "transform_data" /\ Step("convert_to_category")

-----------------------------------------------------------------------------
(* The column transformers called directly on the caller's dataset *)

\* the transformers that canonicalize and fill in defaults
Canonicalizers ==
  {"clean_medlemstyp", "clean_anlaggning", "clean_status", "clean_passnamn",
   "clean_null_values"}

\* the caller runs f(df): f assigns into the caller's own object
Direct(f) ==
  /\ pc = "lib"
  /\ heap' = [heap EXCEPT ![df] = Apply(f, heap[df]).df]
  /\ applied' = applied \cup {f}
  /\ pc' = IF Apply(f, heap[df]).ok THEN "lib" ELSE "raised"
  /\ err' = Apply(f, heap[df]).exc
  /\ UNCHANGED <<df, df_clean, raw, call>>
  /\ LoaderUnchanged

D_clean_medlemstyp == call = "direct" /\ Direct("clean_medlemstyp")

D_clean_anlaggning == call = "direct" /\ Direct("clean_anlaggning")

D_clean_status == call = "direct" /\ Direct("clean_status")

D_clean_passnamn == call = "direct" /\ Direct("clean_passnamn")

D_clean_null_values == call = "direct" /\ Direct("clean_null_values")

\* the caller runs convert_to_category(df) and is done with the dataset
D_convert_to_category ==
  /\ call = "direct" /\ pc = "lib"
  /\ heap' = [heap EXCEPT ![df] = convert_to_category(heap[df]).df]
  /\ applied' = applied \cup {"convert_to_category"}
  /\ pc' = "lib_done"
  /\ UNCHANGED <<df, df_clean, raw, call, err>>
  /\ LoaderUnchanged

Next ==
  \/ TransformStart
  \/ T_clean_manadskostnad
  \/ T_clean_fodelsear
  \/ T_clean_medlemstyp
  \/ T_clean_anlaggning
  \/ T_clean_status
  \/ T_clean_passnamn
  \/ T_clean_null_values
  \/ T_clean_date
  \/ T_clean_passtid
  \/ T_convert_to_category
  \/ D_clean_medlemstyp
  \/ D_clean_anlaggning
  \/ D_clean_status
  \/ D_clean_passnamn
  \/ D_clean_null_values
  \/ D_convert_to_category

Spec == Init /\ [][Next]_vars

-----------------------------------------------------------------------------
(* The loaders: load_to_sqlite, load_validation_to_sqlite, and the table    *)
(* inspection that ends run_pipeline                                        *)

Main == <<"m","a","i","n">>

Validation == <<"v","a","l","i","d","a","t","i","o","n">>

\* the cleaned datasets handed to the loaders
Cleaned(rows) == transform_in_order(StepOrder, Frame(rows, AllCols)).df

LoadInputs ==
  {Cleaned(<<>>),
   Cleaned(<<BaseRow, [BaseRow EXCEPT !["anläggning"] = Str(<<"C","i","t","y">>)]>>),
   Cleaned(<<[BaseRow EXCEPT !["månadskostnad"] = Num(0 - 50)], BaseRow>>)}

\* a DataFrame as a table: the rows and the columns, no dtypes
AsTable(d) == [exists |-> TRUE, cols |-> d.cols, rows |-> d.rows]

\* what the table may hold before the first call: nothing, rows of an earlier
\* run, or rows of another schema
InitialTables ==
  {NoTable,
   AsTable(Assign(Cleaned(<<BaseRow, BaseRow>>), "dataset", <<Str(Validation)>>)),
   AsTable(Frame(<<BaseRow>>, AllCols))}

\* the number of loader calls in a run of the model
MaxLoads == 2

\* the values to_sql accepts for if_exists
IfExists == {"replace", "append", "fail"}

\* the modes the loaders are called with
LoadModes == {"replace", "append"}

\* "df_to_save = df.copy()", then the dataset column unless the label is None
\* (NA stands for None)
df_to_save(d, label) ==
  IF isna(label) THEN d ELSE Assign(d, "dataset", [i \in DOMAIN d.rows |-> label])

\* rows for INSERT into a table with the given columns: a column the
\* DataFrame does not have is NULL
InsertRows(d, cols) ==
  [i \in DOMAIN d.rows |->
     [c \in cols |-> IF c \in d.cols THEN d.rows[i][c] ELSE NA]]

\* a faulty variant: the rows are added to whatever the table holds
to_sql_always_append(t, d, if_exists) ==
  IF ~t.exists THEN [table |-> AsTable(d), exc |-> ""]
  ELSE IF d.cols \subseteq t.cols
       THEN [table |-> [t EXCEPT !.rows = @ \o InsertRows(d, t.cols)], exc |-> ""]
       ELSE [table |-> t, exc |-> "OperationalError"]

\* DataFrame.to_sql(table, conn, if_exists=..., index=False): the table after
\* the call and the exception raised, "" if none
to_sql(t, d, if_exists) ==
  IF if_exists \notin IfExists THEN [table |-> t, exc |-> "ValueError"]
  ELSE IF ~t.exists THEN [table |-> AsTable(d), exc |-> ""]
  ELSE CASE if_exists = "fail"    -> [table |-> t, exc |-> "ValueError"]
         [] if_exists = "replace" -> [table |-> AsTable(d), exc |-> ""]
         [] if_exists = "append"  ->
              IF d.cols \subseteq t.cols
              THEN [table |-> [t EXCEPT !.rows = @ \o InsertRows(d, t.cols)],
                    exc |-> ""]
              ELSE [table |-> t, exc |-> "OperationalError"]

\* what a write that the database refuses (disk full, database locked) may
\* leave: the DROP and CREATE of replace mode are committed before the
\* INSERT, the INSERT is rolled back
AfterFailedWrite(t, d, if_exists) ==
  IF if_exists = "replace" /\ t.exists
  THEN {t, NoTable, [exists |-> TRUE, cols |-> d.cols, rows |-> <<>>]}
  ELSE {t}

\* a faulty variant: the label is not passed on, so the default applies
load_validation_without_label(d, if_exists) ==
  [df |-> d, if_exists |-> if_exists, dataset_label |-> Str(Main),
   via |-> "load_validation_to_sqlite", exc |-> ""]

\* load_validation_to_sqlite: the arguments it calls load_to_sqlite with
load_validation_to_sqlite(d, if_exists) ==
  [df |-> d, if_exists |-> if_exists, dataset_label |-> Str(Validation),
   via |-> "load_validation_to_sqlite", exc |-> ""]

\* a faulty variant: close() after the write, outside any finally
close_after_write(c, exc) == IF exc = "" THEN c - 1 ELSE c

\* "finally: conn.close()": runs whether or not the try body raised
close_in_finally(c, exc) == c - 1

Idle == {"idle", "returned", "raised", "inspected", "inspect_raised"}

InitLoad ==
  /\ heap = <<Frame(<<>>, AllCols)>>
  /\ raw = Frame(<<>>, AllCols)
  /\ df = 1
  /\ df_clean = 0
  /\ call = "load"
  /\ pc = "off"
  /\ err = ""
  /\ applied = {}
  /\ table \in InitialTables
  /\ conn = 0
  /\ lpc = "idle"
  /\ larg = NoArgs
  /\ calls = <<>>

TransformUnchanged == UNCHANGED <<heap, df, df_clean, pc, err, raw, call, applied>>

\* the caller calls load_to_sqlite(df, if_exists=..., dataset_label=...)
CallLoadToSqlite ==
  /\ call = "load" /\ lpc \in Idle /\ Len(calls) < MaxLoads
  /\ \E d \in LoadInputs, ie \in LoadModes, label \in {Str(Main), NA} :
       larg' = [df |-> d, if_exists |-> ie, dataset_label |-> label,
                via |-> "load_to_sqlite", exc |-> ""]
  /\ lpc' = "connect"
  /\ UNCHANGED <<table, conn, calls>>
  /\ TransformUnchanged

\* the caller calls load_validation_to_sqlite(df, if_exists=...)
CallLoadValidation ==
  /\ call = "load" /\ lpc \in Idle /\ Len(calls) < MaxLoads
  /\ \E d \in LoadInputs, ie \in LoadModes :
       larg' = load_validation_to_sqlite(d, ie)
  /\ lpc' = "connect"
  /\ UNCHANGED <<table, conn, calls>>
  /\ TransformUnchanged

\* line 226: sqlite3.connect(db_path) returns a connection
Connect ==
  /\ lpc = "connect"
  /\ conn' = conn + 1
  /\ lpc' = "try"
  /\ UNCHANGED <<table, larg, calls>>
  /\ TransformUnchanged

\* line 226: sqlite3.connect(db_path) raises; the try block is not entered
ConnectFails ==
  /\ lpc = "connect"
  /\ lpc' = "raised"
  /\ calls' = Append(calls, [larg EXCEPT !.exc = "OperationalError"]
                              @@ [outcome |-> "raised", wrote |-> FALSE])
  /\ UNCHANGED <<table, conn, larg>>
  /\ TransformUnchanged

\* lines 228-232: the try body, to_sql deciding the outcome
Write ==
  /\ lpc = "try"
  /\ table' = to_sql(table, df_to_save(larg.df, larg.dataset_label), larg.if_exists).table
  /\ larg' = [larg EXCEPT !.exc =
                to_sql(table, df_to_save(larg.df, larg.dataset_label), larg.if_exists).exc]
  /\ lpc' = "finally"
  /\ UNCHANGED <<conn, calls>>
  /\ TransformUnchanged

\* lines 228-232: the try body, the database refusing the write
WriteFails ==
  /\ lpc = "try"
  /\ table' \in AfterFailedWrite(table, df_to_save(larg.df, larg.dataset_label),
                                 larg.if_exists)
  /\ larg' = [larg EXCEPT !.exc = "OperationalError"]
  /\ lpc' = "finally"
  /\ UNCHANGED <<conn, calls>>
  /\ TransformUnchanged

\* lines 233-234: the finally clause, then the return or the re-raise
Finally ==
  /\ lpc = "finally"
  /\ conn' = close_in_finally(conn, larg.exc)
  /\ lpc' = IF larg.exc = "" THEN "returned" ELSE "raised"
  /\ calls' = Append(calls, larg @@ [outcome |-> IF larg.exc = "" THEN "returned"
                                                  ELSE "raised",
                                     wrote |-> TRUE])
  /\ UNCHANGED <<table, larg>>
  /\ TransformUnchanged

\* run_pipeline, line 268: the connection for the PRAGMA query, opened after
\* load_to_sqlite returned
InspectConnect ==
  /\ lpc = "returned"
  /\ calls[Len(calls)].via = "load_to_sqlite"
  /\ conn' = conn + 1
  /\ lpc' = "inspect"
  /\ UNCHANGED <<table, larg, calls>>
  /\ TransformUnchanged

\* run_pipeline, lines 269-272: read_sql returns or raises, conn.close() runs
InspectClose ==
  /\ lpc = "inspect"
  /\ conn' = conn - 1
  /\ lpc' \in {"inspected", "inspect_raised"}
  /\ UNCHANGED <<table, larg, calls>>
  /\ TransformUnchanged

NextLoad ==
  \/ CallLoadToSqlite
  \/ CallLoadValidation
  \/ Connect
  \/ ConnectFails
  \/ Write
  \/ WriteFails
  \/ Finally
  \/ InspectConnect
  \/ InspectClose

SpecLoad == InitLoad /\ [][NextLoad]_vars

-----------------------------------------------------------------------------
(* Properties of transform_data and of the column transformers *)

\* what a call hands its caller: the dataset when it returned, only the
\* exception when it raised
Outcome(r) == IF r.ok THEN r ELSE Raise(Frame(<<>>, {}), r.exc)

\* what the call of transform_data in progress has handed back, once it ended
Returned == [ok |-> pc = "done", df |-> heap[df_clean], exc |-> err]

Ended == call = "transform_data" /\ pc \in {"done", "raised"}

DistinctRows(d) == {d.rows[i] : i \in DOMAIN d.rows}

\* the canonicalizers with the column and the map of each
TextMaps ==
  << <<"clean_medlemstyp", "medlemstyp", medlemstyp_map>>,
     <<"clean_anlaggning", "anläggning", anlaggning_map>>,
     <<"clean_status", "status", status_map>>,
     <<"clean_passnamn", "passnamn", passnamn_map>> >>

\* the columns each transformer reads
Reads(f) ==
  CASE f = "clean_manadskostnad" -> {"månadskostnad"}
    [] f = "clean_fodelsear"     -> {"födelseår"}
    [] f = "clean_medlemstyp"    -> {"medlemstyp"}
    [] f = "clean_anlaggning"    -> {"anläggning"}
    [] f = "clean_status"        -> {"status"}
    [] f = "clean_passnamn"      -> {"passnamn"}
    [] f = "clean_null_values"   -> {"anläggning", "instruktör", "feedback_text"}
    [] f = "clean_date"          -> Range(date_columns)
    [] f = "clean_passtid"       -> {"passtid"}
    [] f = "convert_to_category" -> categorical_columns

C4_DedupOnRawValues ==
  /\ (call = "transform_data" /\ pc # "start")
       => Len(heap[df_clean].rows) = Cardinality(DistinctRows(raw))
  /\ (call = "transform_data" /\ pc = "done")
       => \A i \in DOMAIN raw.rows :
            \E k \in DOMAIN heap[df_clean].rows :
              heap[df_clean].rows[k]
                = transform_in_order(StepOrder, Frame(<<raw.rows[i]>>, raw.cols)).df.rows[1]

\* two raw rows that differ only in the spelling of the facility, both kept,
\* equal after cleaning
C4_Witness ==
  /\ call = "transform_data" /\ pc = "done"
  /\ Len(raw.rows) = 2
  /\ raw.rows[1]["anläggning"] # raw.rows[2]["anläggning"]
  /\ \A c \in AllCols \ {"anläggning"} : raw.rows[1][c] = raw.rows[2][c]
  /\ Len(heap[df_clean].rows) = 2
  /\ heap[df_clean].rows[1] = heap[df_clean].rows[2]

C6_AbsentKeepsTitle ==
  call = "direct" =>
    \A x \in DOMAIN TextMaps :
      (TextMaps[x][1] \in applied /\ TextMaps[x][2] \in raw.cols) =>
        \A i \in DOMAIN raw.rows :
          LET m   == TextMaps[x][3]
              r   == raw.rows[i][TextMaps[x][2]]
              now == heap[df].rows[i][TextMaps[x][2]]
          IN  ~isna(r) =>
                /\ \A k \in DOMAIN m :
                     str_title(r.s) = str_title(m[k][1]) => now = Str(m[k][2])
                /\ r.s \notin Keys(m) => now = Str(str_title(r.s))

\* C6 (amended): a value whose title-cased spelling matches a key's becomes
\* that key's value, and a value whose title-cased form is not a key of the
\* map becomes its title-cased form.
C6_Coverage ==
  call = "direct" =>
    \A x \in DOMAIN TextMaps :
      (TextMaps[x][1] \in applied /\ TextMaps[x][2] \in raw.cols) =>
        \A i \in DOMAIN raw.rows :
          LET m   == TextMaps[x][3]
              r   == raw.rows[i][TextMaps[x][2]]
              now == heap[df].rows[i][TextMaps[x][2]]
          IN  ~isna(r) =>
                /\ \A k \in DOMAIN m :
                     str_title(r.s) = str_title(m[k][1]) => now = Str(m[k][2])
                /\ str_title(r.s) \notin Keys(m) => now = Str(str_title(r.s))

\* a key in lower case, canonicalized to the key's value
C6_Witness ==
  /\ call = "direct"
  /\ "clean_medlemstyp" \in applied
  /\ Len(raw.rows) = 1 /\ "medlemstyp" \in raw.cols
  /\ raw.rows[1]["medlemstyp"] = Str(<<"g","o","l","d">>)
  /\ heap[df].rows[1]["medlemstyp"] = Str(<<"P","r","e","m","i","u","m">>)

\* C7: on an input with every column, and numbers or NaN in the cost column,
\* transform_data does not raise, whatever the birth years, dates and times
\* are, and returns a row for every distinct input row.
C7_TolerateAndMark ==
  (/\ call = "transform_data"
   /\ raw.cols = AllCols
   /\ \A i \in DOMAIN raw.rows : raw.rows[i]["månadskostnad"].t # "str")
    => /\ pc # "raised"
       /\ pc = "done" => Len(heap[df_clean].rows) = Cardinality(DistinctRows(raw))

\* C8: on an input that lacks a column a transformer reads, transform_data
\* never returns a dataset: as long as it has not raised it has a next call
\* to make, and when it ends it has raised.  Called on its own,
\* convert_to_category returns whatever columns are absent and leaves the
\* rows and the columns as they were, while every other transformer raises
\* when a column it reads is absent.
C8_FailFast ==
  /\ (call = "transform_data" /\ raw.cols # AllCols)
       => /\ pc # "done"
          /\ pc = "raised" => err # ""
          /\ pc # "raised" => pc \in {"start"} \cup Range(StepOrder)
  /\ (call = "direct" /\ pc = "lib")
       => /\ convert_to_category(heap[df]).ok
          /\ convert_to_category(heap[df]).df.rows = heap[df].rows
          /\ convert_to_category(heap[df]).df.cols = heap[df].cols
          /\ convert_to_category(heap[df]).df.cat
               = heap[df].cat \cup (categorical_columns \cap heap[df].cols)
          /\ \A f \in Range(StepOrder) \ {"convert_to_category"} :
               ~(Reads(f) \subseteq heap[df].cols) => ~Apply(f, heap[df]).ok
  /\ (call = "direct" /\ "convert_to_category" \in applied)
       => pc = "lib_done" /\ err = ""

\* transform_data raised KeyError at its last reading step
C8_Witness ==
  /\ call = "transform_data" /\ pc = "raised" /\ err = "KeyError"
  /\ "passtid" \notin raw.cols
  /\ "passtid" \notin heap[df_clean].cols
  /\ heap[df_clean].rows[1]["passdatum"].t = "date"

\* C10: whatever transform_data has done so far, and however it ends, the
\* caller's dataset has the rows, columns and values it had before the call.
C10_SourceUntouched ==
  call = "transform_data" => heap[df] = raw

\* transform_data returned a dataset with the flag columns and new values,
\* the caller's dataset being as it was
C10_Witness ==
  /\ call = "transform_data" /\ pc = "done"
  /\ "är_negativt_belopp" \in heap[df_clean].cols
  /\ "är_negativt_belopp" \notin heap[df].cols
  /\ heap[df_clean] # raw
  /\ heap[df] = raw

-----------------------------------------------------------------------------
(* Properties of the loaders *)

\* the table is as the last completed call left it
Settled == lpc # "finally"

\* the i-th completed call wrote the main dataset in replace mode and returned
MainReplaced(i) ==
  /\ calls[i].via = "load_to_sqlite"
  /\ calls[i].dataset_label = Str(Main)
  /\ calls[i].if_exists = "replace"
  /\ calls[i].outcome = "returned"

\* the i-th completed call wrote the validation dataset in append mode and
\* returned
ValidationAppended(i) ==
  /\ calls[i].via = "load_validation_to_sqlite"
  /\ calls[i].if_exists = "append"
  /\ calls[i].outcome = "returned"

\* the rows of the table from `from` on are the rows of d, in order, each
\* with the given label
HoldsRows(from, d, label) ==
  \A i \in DOMAIN d.rows :
    /\ from + i \in DOMAIN table.rows
    /\ table.rows[from + i]["dataset"] = Str(label)
    /\ \A c \in d.cols : table.rows[from + i][c] = d.rows[i][c]

Labelled(label) ==
  {i \in DOMAIN table.rows : table.rows[i]["dataset"] = Str(label)}

\* C1: once load_to_sqlite(M, "replace", "main") and then
\* load_validation_to_sqlite(V), append, of the same schema, have both
\* returned, the table holds the rows of M labelled "main", then the rows of
\* V labelled "validation", and nothing else, whatever it held before.
C1_Provenance ==
  (/\ call = "load" /\ Settled /\ Len(calls) >= 2
   /\ MainReplaced(Len(calls) - 1)
   /\ ValidationAppended(Len(calls))
   /\ calls[Len(calls) - 1].df.cols = calls[Len(calls)].df.cols)
    => /\ table.exists
       /\ table.cols = calls[Len(calls)].df.cols \cup {"dataset"}
       /\ Len(table.rows)
            = Len(calls[Len(calls) - 1].df.rows) + Len(calls[Len(calls)].df.rows)
       /\ Cardinality(Labelled(Main)) = Len(calls[Len(calls) - 1].df.rows)
       /\ Cardinality(Labelled(Validation)) = Len(calls[Len(calls)].df.rows)
       /\ HoldsRows(0, calls[Len(calls) - 1].df, Main)
       /\ HoldsRows(Len(calls[Len(calls) - 1].df.rows), calls[Len(calls)].df, Validation)

\* main then validation, both with rows, over a table that held other rows
C1_Witness ==
  /\ call = "load" /\ lpc = "returned" /\ Len(calls) = 2
  /\ MainReplaced(1) /\ ValidationAppended(2)
  /\ Len(calls[1].df.rows) = 2 /\ Len(calls[2].df.rows) = 2
  /\ calls[1].df # calls[2].df
  /\ Len(table.rows) = 4
  /\ Cardinality(Labelled(Main)) = 2

\* C2 (as stated): once the validation dataset was written first, in append
\* mode, and the main dataset second, in replace mode, no row of the main
\* dataset is in the table.
C2_ReverseLosesMain ==
  (/\ call = "load" /\ Settled /\ Len(calls) >= 2
   /\ ValidationAppended(Len(calls) - 1)
   /\ MainReplaced(Len(calls)))
    => \A i \in DOMAIN calls[Len(calls)].df.rows :
         ~\E k \in DOMAIN table.rows :
            /\ table.rows[k]["dataset"] = Str(Main)
            /\ \A c \in calls[Len(calls)].df.cols :
                 table.rows[k][c] = calls[Len(calls)].df.rows[i][c]

\* C2 (amended): once the validation dataset was written first, in append
\* mode, and the main dataset second, in replace mode, the table holds the
\* rows of the main dataset labelled "main" and nothing else: the rows of the
\* validation dataset are lost.
C2_ReverseLosesValidation ==
  (/\ call = "load" /\ Settled /\ Len(calls) >= 2
   /\ ValidationAppended(Len(calls) - 1)
   /\ MainReplaced(Len(calls)))
    => /\ table.exists
       /\ Len(table.rows) = Len(calls[Len(calls)].df.rows)
       /\ HoldsRows(0, calls[Len(calls)].df, Main)
       /\ Labelled(Validation) = {}

\* validation then main, both with rows
C2_Witness ==
  /\ call = "load" /\ lpc = "returned" /\ Len(calls) = 2
  /\ ValidationAppended(1) /\ MainReplaced(2)
  /\ Len(calls[1].df.rows) = 2 /\ Len(calls[2].df.rows) = 2
  /\ Len(table.rows) = 2
  /\ Labelled(Main) = {1, 2}

\* C9: at most one connection is open at any time, none is open between
\* calls (after a return or a raise, of a write that succeeded or failed),
\* and a call whose connect or write raised ended by raising that exception.
C9_ScopedConnection ==
  call = "load" =>
    /\ conn \in {0, 1}
    /\ conn = 1 => lpc \in {"try", "finally", "inspect"}
    /\ lpc \in Idle => conn = 0
    /\ \A i \in DOMAIN calls :
         calls[i].exc # "" <=> calls[i].outcome = "raised"

\* a call whose write failed has raised, its connection closed
C9_Witness ==
  /\ call = "load" /\ lpc = "raised" /\ conn = 0
  /\ Len(calls) >= 1
  /\ calls[Len(calls)].wrote
  /\ calls[Len(calls)].exc = "OperationalError"
  /\ calls[Len(calls)].outcome = "raised"

====
